---- MODULE Spec2Model ----
(***************************************************************************)
(* Model of the development bridge HTTP client                             *)
(* (src/lib/dev-bridge/http-client.ts): the environment the module reads   *)
(* (window, window.__TAURI__, import.meta.env.DEV, location.hostname), the *)
(* backend behind BRIDGE_URL, and the three exported operations            *)
(* invokeViaHttp, healthCheck and getBridgeStatus.  The two async          *)
(* functions are split at their await points.  ConnectSpec adds the        *)
(* deep-link connection handshake that dispatches through invokeViaHttp.   *)
(***************************************************************************)
EXTENDS Integers, Sequences, FiniteSets, TLC

VARIABLES env, server, inv, hc, lastStatus, lastDevAvailable, statusEnv, conn

vars == <<env, server, inv, hc, lastStatus, lastDevAvailable, statusEnv, conn>>

(***************************************************************************)
(* JavaScript values and the operators the code applies to them.  A value  *)
(* is written as a string: "undefined", "false", "true", or "object" (any  *)
(* non-null object, here the injected __TAURI__ global).                   *)
(***************************************************************************)
Truthy(v) == v \in {"true", "object"}

JsBool(b) == IF b THEN "true" ELSE "false"

JsAnd(a, b) == IF Truthy(a) THEN b ELSE a

JsOr(a, b) == IF Truthy(a) THEN a ELSE b

JsNot(a) == IF Truthy(a) THEN "false" ELSE "true"

(***************************************************************************)
(* The environment.  window says whether the global window exists; TAURI   *)
(* is the value of window.__TAURI__; DEV is import.meta.env.DEV, fixed at  *)
(* build time; hostname is location.hostname.                              *)
(***************************************************************************)
Hostnames == {"localhost", "127.0.0.1", "example.com"}

MarkerValues == {"undefined", "object"}

NoWindow(dev) == [window |-> FALSE, TAURI |-> "undefined", DEV |-> dev, hostname |-> ""]

Environments ==
    { NoWindow(d) : d \in BOOLEAN }
    \cup [window : {TRUE}, TAURI : MarkerValues, DEV : BOOLEAN, hostname : Hostnames]

\* The page is first loaded without the Tauri global, from localhost or
\* outside a browser; every other environment is reached by a change.
InitialEnvironments ==
    {e \in Environments : e.TAURI = "undefined" /\ e.hostname \in {"", "localhost"}}

BRIDGE_URL == "http://127.0.0.1:3030/invoke"

\* isDevBridgeAvailable(): browser page without the Tauri global, in dev mode
\* or served from a loopback host.
isDevBridgeAvailable_noLoopbackIp(e) ==
    JsAnd(JsAnd(JsBool(e.window), JsNot(e.TAURI)),
          JsOr(JsBool(e.DEV), JsBool(e.hostname = "localhost")))

isDevBridgeAvailable_ignoresTauri(e) ==
    JsAnd(JsBool(e.window),
          JsOr(JsOr(JsBool(e.DEV), JsBool(e.hostname = "localhost")),
               JsBool(e.hostname = "127.0.0.1")))

isDevBridgeAvailable_anyHost(e) ==
    JsAnd(JsBool(e.window), JsNot(e.TAURI))

isDevBridgeAvailable(e) ==
    JsAnd(JsAnd(JsBool(e.window), JsNot(e.TAURI)),
          JsOr(JsOr(JsBool(e.DEV), JsBool(e.hostname = "localhost")),
               JsBool(e.hostname = "127.0.0.1")))

\* The BridgeStatus object getBridgeStatus() builds.
BridgeStatus(hasTauri, devAvailable) ==
    [available |-> JsOr(hasTauri, devAvailable),
     connected |-> hasTauri,
     mode      |-> IF Truthy(hasTauri) THEN "tauri"
                   ELSE IF Truthy(devAvailable) THEN "http" ELSE "mock"]

getBridgeStatus_cached(e) ==
    IF lastStatus.mode # "none" THEN lastStatus
    ELSE BridgeStatus(JsAnd(JsBool(e.window), e.TAURI), isDevBridgeAvailable(e))

getBridgeStatus_connectedWhenAvailable(e) ==
    LET s == BridgeStatus(JsAnd(JsBool(e.window), e.TAURI), isDevBridgeAvailable(e))
    IN  [s EXCEPT !.connected = s.available]

getBridgeStatus_availableIsDevOnly(e) ==
    LET s == BridgeStatus(JsAnd(JsBool(e.window), e.TAURI), isDevBridgeAvailable(e))
    IN  [s EXCEPT !.available = isDevBridgeAvailable(e)]

getBridgeStatus(e) ==
    BridgeStatus(JsAnd(JsBool(e.window), e.TAURI), isDevBridgeAvailable(e))

(***************************************************************************)
(* The wire: requests to BRIDGE_URL and what the backend may answer.       *)
(***************************************************************************)
Commands == {"get_server_status", "save_api_key"}

\* args as passed by the caller: left out ("undefined") or some payload.
Arguments == {"undefined", "payload"}

\* JSON.stringify of an InvokeRequest: a key whose value is undefined is
\* dropped from the text.  The text is kept as its list of key/value pairs.
JSONstringify(req) ==
    IF req.args = "undefined" THEN << <<"cmd", req.cmd>> >>
    ELSE << <<"cmd", req.cmd>>, <<"args", req.args>> >>

InvokeRequest(cmd, args) == [cmd |-> cmd, args |-> args]

\* The fetch(BRIDGE_URL, {...}) both functions issue.
Fetch(reqBody) ==
    [url |-> BRIDGE_URL, method |-> "POST",
     contentType |-> "application/json", body |-> reqBody]

NoRequest == [url |-> "", method |-> "", contentType |-> "", body |-> << >>]

Statuses == {200, 201, 404}

statusText(s) ==
    CASE s = 200 -> "OK"
      [] s = 201 -> "Created"
      [] s = 404 -> "Not Found"
      [] OTHER   -> ""

\* Response bodies: text that is not JSON, the JSON value null, or a JSON
\* object with optional error and result fields (InvokeResponse).  An absent
\* field reads as "undefined".
ErrorFields == {"undefined", "", "duplicate credential"}

ResultFields == {"undefined", "running"}

InvokeResponse == [kind : {"object"}, error : ErrorFields, result : ResultFields]

Bodies ==
    {[kind |-> "text", error |-> "undefined", result |-> "undefined"],
     [kind |-> "null", error |-> "undefined", result |-> "undefined"]}
    \cup InvokeResponse

Responses == [status : Statuses, body : Bodies]

NoResponse ==
    [status |-> 0, body |-> [kind |-> "none", error |-> "undefined", result |-> "undefined"]]

\* response.ok
Ok(r) == r.status >= 200 /\ r.status <= 299

\* Truthiness of a string-or-undefined field (if (data.error)).
TruthyField(f) == f \notin {"undefined", ""}

(***************************************************************************)
(* How a call completes: still pending, returned a value, or threw.        *)
(***************************************************************************)
Pending == [how |-> "pending", value |-> "undefined", name |-> "", message |-> ""]

Return(v) == [how |-> "return", value |-> v, name |-> "", message |-> ""]

Throw(n, m) == [how |-> "throw", value |-> "undefined", name |-> n, message |-> m]

\* What fetch rejects with when no HTTP response arrives.
FetchRejection == Throw("TypeError", "Failed to fetch")

HttpErrorMessage(r) == "HTTP " \o ToString(r.status) \o ": " \o statusText(r.status)

IdleCall ==
    [pc |-> "idle", cmd |-> "", request |-> NoRequest, response |-> NoResponse,
     bodyRead |-> FALSE, errorLogged |-> FALSE, completion |-> Pending]

NoStatus == [available |-> "undefined", connected |-> "undefined", mode |-> "none"]

NoEnv == [window |-> FALSE, TAURI |-> "undefined", DEV |-> FALSE, hostname |-> "unqueried"]

\* The handshake before any URI has arrived (see the handshake section).
NoUri ==
    [scheme |-> "", data |-> "", version |-> "", name |-> "", apiBase |-> "",
     credential |-> ""]

Outcome(tag, detail) == [tag |-> tag, detail |-> detail]

NoOutcome == Outcome("none", "")

IdleConnect == [pc |-> "idle", uri |-> NoUri, issued |-> 0, result |-> NoOutcome]

(***************************************************************************)
(* What a fetch can settle with: a rejection when no HTTP response arrives *)
(* (connection refused, timeout, network error), or, when the backend is   *)
(* up, any response.                                                       *)
(***************************************************************************)
Rejected == [rejected |-> TRUE, response |-> NoResponse]

Responded(r) == [rejected |-> FALSE, response |-> r]

FetchOutcomes == {Rejected} \cup (IF server = "up" THEN {Responded(r) : r \in Responses} ELSE {})

(***************************************************************************)
(* invokeViaHttp(cmd, args)                                                *)
(***************************************************************************)
\* Entry up to the first await: log the call and issue the fetch.
invokeViaHttp(cmd, args) ==
    [IdleCall EXCEPT !.pc = "awaitFetch", !.cmd = cmd,
                     !.request = Fetch(JSONstringify(InvokeRequest(cmd, args)))]

\* The catch block: log the failure and rethrow the same error.
invokeCatch(c, e) ==
    [c EXCEPT !.pc = "done", !.errorLogged = TRUE, !.completion = e]

\* The fetch settled: a rejection or a response that is not ok goes to the
\* catch block; an ok response has its body read by response.json().
invokeOnFetch_bodyFirst(c, o) ==
    IF o.rejected THEN invokeCatch([c EXCEPT !.request = NoRequest], FetchRejection)
    ELSE IF TruthyField(o.response.body.error)
    THEN invokeCatch([c EXCEPT !.request = NoRequest, !.response = o.response,
                               !.bodyRead = TRUE],
                     Throw("Error", o.response.body.error))
    ELSE IF ~Ok(o.response)
    THEN invokeCatch([c EXCEPT !.request = NoRequest, !.response = o.response],
                     Throw("Error", HttpErrorMessage(o.response)))
    ELSE [c EXCEPT !.pc = "awaitJson", !.request = NoRequest,
                   !.response = o.response, !.bodyRead = TRUE]

invokeOnFetch(c, o) ==
    IF o.rejected THEN invokeCatch([c EXCEPT !.request = NoRequest], FetchRejection)
    ELSE IF ~Ok(o.response)
    THEN invokeCatch([c EXCEPT !.request = NoRequest, !.response = o.response],
                     Throw("Error", HttpErrorMessage(o.response)))
    ELSE [c EXCEPT !.pc = "awaitJson", !.request = NoRequest,
                   !.response = o.response, !.bodyRead = TRUE]

\* response.json() settled: text that is not JSON rejects with a SyntaxError;
\* reading .error of null throws a TypeError; a truthy error field is thrown
\* as an Error; otherwise the result field is returned.
invokeOnJson(c) ==
    LET body == c.response.body IN
    IF body.kind = "text"
    THEN invokeCatch(c, Throw("SyntaxError", "Unexpected token in JSON"))
    ELSE IF body.kind = "null"
    THEN invokeCatch(c, Throw("TypeError", "Cannot read properties of null"))
    ELSE IF TruthyField(body.error)
    THEN invokeCatch(c, Throw("Error", body.error))
    ELSE [c EXCEPT !.pc = "done", !.completion = Return(body.result)]

InvokeCall(cmd, args) ==
    /\ inv.pc = "idle"
    /\ inv' = invokeViaHttp(cmd, args)
    /\ UNCHANGED <<env, server, hc, lastStatus, lastDevAvailable, statusEnv, conn>>

InvokeFetchSettles(o) ==
    /\ inv.pc = "awaitFetch"
    /\ inv' = invokeOnFetch(inv, o)
    /\ UNCHANGED <<env, server, hc, lastStatus, lastDevAvailable, statusEnv, conn>>

InvokeJsonSettles ==
    /\ inv.pc = "awaitJson"
    /\ inv' = invokeOnJson(inv)
    /\ UNCHANGED <<env, server, hc, lastStatus, lastDevAvailable, statusEnv, conn>>

\* The caller has taken the settled promise; a new call can start.
InvokeSettled ==
    /\ inv.pc = "done"
    /\ inv' = IdleCall
    /\ UNCHANGED <<env, server, hc, lastStatus, lastDevAvailable, statusEnv, conn>>

(***************************************************************************)
(* healthCheck()                                                           *)
(***************************************************************************)
healthCheckRequest == Fetch(JSONstringify(InvokeRequest("get_server_status", "undefined")))

healthCheck ==
    [IdleCall EXCEPT !.pc = "awaitFetch", !.cmd = "get_server_status",
                     !.request = healthCheckRequest]

\* return response.ok, or false from the catch block.
healthCheckOnFetch_rethrows(c, o) ==
    IF o.rejected
    THEN [c EXCEPT !.pc = "done", !.request = NoRequest, !.completion = FetchRejection]
    ELSE [c EXCEPT !.pc = "done", !.request = NoRequest, !.response = o.response,
                   !.completion = Return(JsBool(Ok(o.response)))]

healthCheckOnFetch_checksBody(c, o) ==
    IF o.rejected
    THEN [c EXCEPT !.pc = "done", !.request = NoRequest, !.completion = Return("false")]
    ELSE [c EXCEPT !.pc = "done", !.request = NoRequest, !.response = o.response,
                   !.bodyRead = TRUE,
                   !.completion = Return(JsBool(Ok(o.response)
                                                /\ ~TruthyField(o.response.body.error)))]

healthCheckOnFetch(c, o) ==
    IF o.rejected
    THEN [c EXCEPT !.pc = "done", !.request = NoRequest, !.completion = Return("false")]
    ELSE [c EXCEPT !.pc = "done", !.request = NoRequest, !.response = o.response,
                   !.completion = Return(JsBool(Ok(o.response)))]

HealthCall ==
    /\ hc.pc = "idle"
    /\ hc' = healthCheck
    /\ UNCHANGED <<env, server, inv, lastStatus, lastDevAvailable, statusEnv, conn>>

HealthFetchSettles(o) ==
    /\ hc.pc = "awaitFetch"
    /\ hc' = healthCheckOnFetch(hc, o)
    /\ UNCHANGED <<env, server, inv, lastStatus, lastDevAvailable, statusEnv, conn>>

HealthSettled ==
    /\ hc.pc = "done"
    /\ hc' = IdleCall
    /\ UNCHANGED <<env, server, inv, lastStatus, lastDevAvailable, statusEnv, conn>>

(***************************************************************************)
(* getBridgeStatus(): synchronous.  The returned object, the value its     *)
(* call of isDevBridgeAvailable() gave, and the environment both were      *)
(* computed in are recorded.                                               *)
(***************************************************************************)
StatusCall ==
    /\ lastStatus' = getBridgeStatus(env)
    /\ lastDevAvailable' = isDevBridgeAvailable(env)
    /\ statusEnv' = env
    /\ UNCHANGED <<env, server, inv, hc, conn>>

(***************************************************************************)
(* The environment changes under the page: the Tauri global appears or     *)
(* disappears, the page is served from another host, the backend starts or *)
(* stops.                                                                  *)
(***************************************************************************)
MarkerChanges(v) ==
    /\ env.window
    /\ env.TAURI # v
    /\ env' = [env EXCEPT !.TAURI = v]
    /\ UNCHANGED <<server, inv, hc, lastStatus, lastDevAvailable, statusEnv, conn>>

HostnameChanges(h) ==
    /\ env.window
    /\ env.hostname # h
    /\ env' = [env EXCEPT !.hostname = h]
    /\ UNCHANGED <<server, inv, hc, lastStatus, lastDevAvailable, statusEnv, conn>>

ServerStarts ==
    /\ server = "down"
    /\ server' = "up"
    /\ UNCHANGED <<env, inv, hc, lastStatus, lastDevAvailable, statusEnv, conn>>

ServerStops ==
    /\ server = "up"
    /\ server' = "down"
    /\ UNCHANGED <<env, inv, hc, lastStatus, lastDevAvailable, statusEnv, conn>>

Init ==
    /\ env \in InitialEnvironments
    /\ server \in {"down", "up"}
    /\ inv = IdleCall
    /\ hc = IdleCall
    /\ lastStatus = NoStatus
    /\ lastDevAvailable = "undefined"
    /\ statusEnv = NoEnv
    /\ conn = IdleConnect

Next ==
    \/ \E cmd \in Commands, args \in Arguments : InvokeCall(cmd, args)
    \/ \E o \in FetchOutcomes : InvokeFetchSettles(o)
    \/ InvokeJsonSettles
    \/ InvokeSettled
    \/ HealthCall
    \/ \E o \in FetchOutcomes : HealthFetchSettles(o)
    \/ HealthSettled
    \/ StatusCall
    \/ \E v \in MarkerValues : MarkerChanges(v)
    \/ \E h \in Hostnames : HostnameChanges(h)
    \/ ServerStarts
    \/ ServerStops

Spec == Init /\ [][Next]_vars

TypeOK ==
    /\ env \in Environments
    /\ server \in {"down", "up"}
    /\ inv.pc \in {"idle", "awaitFetch", "awaitJson", "done"}
    /\ hc.pc \in {"idle", "awaitFetch", "done"}
    /\ lastStatus.mode \in {"none", "tauri", "http", "mock"}

(***************************************************************************)
(* The connection handshake (useDeepLink).  The hook's source is not part  *)
(* of the files at hand, only its re-export; the codec and the             *)
(* orchestrator below follow the design document (4.3 and 4.4).            *)
(***************************************************************************)
\* An incoming deep-link URI, by what the codec looks at, in its order.
RawUris ==
    [scheme : {"recognized", "unrecognized"},
     data : {"absent", "badEncoding", "notRecord", "record"},
     version : {"supported", "unsupported"},
     name : {"", "relay"},
     apiBase : {"", "https://relay.example"},
     credential : {"", "secret"}]

\* decode(rawUri): the first failing step decides the ConnectError.
decode(u) ==
    IF u.scheme # "recognized" \/ u.data \in {"absent", "badEncoding"}
    THEN Outcome("MalformedUri", "")
    ELSE IF u.data # "record" THEN Outcome("MalformedUri", "")
    ELSE IF u.version # "supported" THEN Outcome("UnsupportedRelayVersion", "")
    ELSE IF u.name = "" THEN Outcome("MissingField", "name")
    ELSE IF u.apiBase = "" THEN Outcome("MissingField", "apiBase")
    ELSE IF u.credential = "" THEN Outcome("MissingField", "credentialMaterial")
    ELSE Outcome("ConnectionPayload", u.credential)

\* The fixed backend command of the Dispatch step.
SaveCommand == "save_api_key"

\* connect(rawUri) up to its first suspension: Decoding, then Dispatch.
connect(u) ==
    LET d == decode(u) IN
    IF d.tag # "ConnectionPayload"
    THEN [pc |-> "done", uri |-> u, issued |-> 0, result |-> d]
    ELSE [pc |-> "dispatched", uri |-> u, issued |-> 1, result |-> NoOutcome]

\* Interpretation and Completion, on the settled bridge call.
connectInterpret_retries(c, call) ==
    IF call.completion.how = "return"
    THEN [c EXCEPT !.pc = "done",
                   !.result = Outcome("SaveApiKeyResult", call.completion.value)]
    ELSE [c EXCEPT !.pc = "dispatched", !.issued = c.issued + 1]

connectInterpret(c, call) ==
    IF call.completion.how = "return"
    THEN [c EXCEPT !.pc = "done",
                   !.result = Outcome("SaveApiKeyResult", call.completion.value)]
    ELSE IF Ok(call.response) /\ call.response.body.kind = "object"
            /\ TruthyField(call.response.body.error)
    THEN [c EXCEPT !.pc = "done",
                   !.result = Outcome("PersistenceRejected", call.completion.message)]
    ELSE [c EXCEPT !.pc = "done", !.result = Outcome("BackendUnreachable", "")]

ConnectCall(u) ==
    /\ conn.pc = "idle"
    /\ inv.pc = "idle"
    /\ conn' = connect(u)
    /\ inv' = IF conn'.pc = "dispatched" THEN invokeViaHttp(SaveCommand, "payload") ELSE inv
    /\ UNCHANGED <<env, server, hc, lastStatus, lastDevAvailable, statusEnv>>

ConnectInterprets ==
    /\ conn.pc = "dispatched"
    /\ inv.pc = "done"
    /\ conn' = connectInterpret(conn, inv)
    /\ inv' = IF conn'.pc = "dispatched" THEN invokeViaHttp(SaveCommand, "payload")
              ELSE IdleCall
    /\ UNCHANGED <<env, server, hc, lastStatus, lastDevAvailable, statusEnv>>

\* The caller has taken the result; the next URI can be handled.
ConnectSettled ==
    /\ conn.pc = "done"
    /\ conn' = IdleConnect
    /\ UNCHANGED <<env, server, inv, hc, lastStatus, lastDevAvailable, statusEnv>>

ConnectNext ==
    \/ \E u \in RawUris : ConnectCall(u)
    \/ \E o \in FetchOutcomes : InvokeFetchSettles(o)
    \/ InvokeJsonSettles
    \/ ConnectInterprets
    \/ ConnectSettled
    \/ ServerStarts
    \/ ServerStops

ConnectSpec == Init /\ [][ConnectNext]_vars

(***************************************************************************)
(* Properties.                                                             *)
(*                                                                         *)
(* The source has no Failure value: a call that fails has its promise      *)
(* rejected with an Error.  Fails(c, m) says completion c is a failure     *)
(* with message m.                                                         *)
(***************************************************************************)
Fails(c, m) == c.how = "throw" /\ c.message = m

LocalHosts == {"localhost", "127.0.0.1"}

MarkerPresent(e) == Truthy(e.TAURI)

Queried == statusEnv # NoEnv

\* The decision policy the code implements, written over the environment.
DecisionPolicy(e) ==
    IF MarkerPresent(e) THEN "tauri"
    ELSE IF e.window /\ (e.DEV \/ e.hostname \in LocalHosts) THEN "http"
    ELSE "mock"

\* C1: invoke never throws: every completed invokeViaHttp call, whatever the
\* command and the transport outcome, has returned a value to its caller
\* and no exception has left the function.
C1_InvokeNeverThrows ==
    inv.pc = "done" => inv.completion.how = "return"

\* C2: when the mode is Unavailable ("mock") at the moment invoke is called,
\* the call completes at once with the failure "no transport available" and
\* issues no network request.
C2_UnavailableIssuesNoRequest ==
    [][(inv.pc = "idle" /\ inv'.pc # "idle" /\ getBridgeStatus(env).mode = "mock")
          => /\ inv'.pc = "done"
             /\ inv'.request = NoRequest
             /\ inv'.completion.how # "pending"
             /\ "no transport available" \in {inv'.completion.message, inv'.completion.value}]_vars

\* C3: the outcome of a completed invoke that received an HTTP response is
\* determined by that response, in this order: a status outside 2xx fails
\* with "HTTP <status>: <reason phrase>" and the body is not read; otherwise
\* a JSON object body with a non-empty error field fails with that error;
\* otherwise a JSON object body gives the success value, its result field
\* unchanged.
C3_OutcomeFollowsResponse ==
    (inv.pc = "done" /\ inv.response # NoResponse) =>
        LET r == inv.response IN
        IF r.status < 200 \/ r.status > 299
        THEN /\ Fails(inv.completion, HttpErrorMessage(r))
             /\ (r.status = 404 => inv.completion.message = "HTTP 404: Not Found")
             /\ ~inv.bodyRead
        ELSE IF r.body.kind = "object" /\ r.body.error \notin {"undefined", ""}
        THEN Fails(inv.completion, r.body.error)
        ELSE IF r.body.kind = "object"
        THEN inv.completion = Return(r.body.result)
        ELSE TRUE

C3_Witness ==
    /\ inv.pc = "done"
    /\ getBridgeStatus(env).mode = "http"
    /\ inv.response.status = 200
    /\ inv.response.body.error = "duplicate credential"
    /\ Fails(inv.completion, "duplicate credential")

\* C4 as stated: without the marker and with a hostname that is neither
\* localhost nor 127.0.0.1, the mode is "mock" and available is false,
\* whatever the development flag.
C4_NonLocalHostIsMock ==
    (Queried /\ ~MarkerPresent(statusEnv) /\ statusEnv.hostname \notin LocalHosts)
        => (lastStatus.mode = "mock" /\ ~Truthy(lastStatus.available))

\* C4 amended: without the marker and with a hostname that is neither
\* localhost nor 127.0.0.1, the mode is "mock" and available is false when
\* the development flag is off (or there is no window); with the
\* development flag on in a window the mode is "http" and available is true.
C4_NonLocalHostIsMockUnlessDev ==
    (Queried /\ ~MarkerPresent(statusEnv) /\ statusEnv.hostname \notin LocalHosts)
        => IF statusEnv.window /\ statusEnv.DEV
           THEN lastStatus.mode = "http" /\ Truthy(lastStatus.available)
           ELSE lastStatus.mode = "mock" /\ ~Truthy(lastStatus.available)

C4_Witness ==
    /\ statusEnv.window
    /\ ~statusEnv.DEV
    /\ ~MarkerPresent(statusEnv)
    /\ statusEnv.hostname = "example.com"
    /\ lastStatus.mode = "mock"
    /\ ~Truthy(lastStatus.available)

\* C5: whenever the marker is present the reported mode is "tauri", whatever
\* the hostname and the development flag, and isDevBridgeAvailable() is
\* false.
C5_MarkerMeansTauri ==
    (Queried /\ MarkerPresent(statusEnv))
        => (lastStatus.mode = "tauri" /\ ~Truthy(lastDevAvailable))

C5_Witness ==
    /\ MarkerPresent(statusEnv)
    /\ statusEnv.DEV
    /\ statusEnv.hostname = "localhost"
    /\ lastStatus.mode = "tauri"
    /\ lastDevAvailable = "false"

\* C6: without the marker and with hostname localhost or 127.0.0.1 the
\* reported mode is "http".
C6_LoopbackHostIsHttp ==
    (Queried /\ ~MarkerPresent(statusEnv) /\ statusEnv.hostname \in LocalHosts)
        => lastStatus.mode = "http"

C6_Witness ==
    /\ ~MarkerPresent(statusEnv)
    /\ ~statusEnv.DEV
    /\ statusEnv.hostname = "127.0.0.1"
    /\ lastStatus.mode = "http"

\* C7 as stated: whenever the probe's request receives an HTTP response,
\* whatever its status code and body, healthCheck returns true.
C7_AnyResponseIsReachable ==
    (hc.pc = "done" /\ hc.response # NoResponse) => hc.completion = Return("true")

\* C7 amended: the probe POSTs cmd = "get_server_status" with no args; when
\* it receives an HTTP response it returns true exactly when the status is
\* 2xx, whatever the body (which it does not read), also for a body with an
\* error field on which invoke fails; a response outside 2xx gives false.
C7_OkResponseIsReachable ==
    /\ hc.pc = "awaitFetch" =>
          hc.request = [url |-> "http://127.0.0.1:3030/invoke", method |-> "POST",
                        contentType |-> "application/json",
                        body |-> << <<"cmd", "get_server_status">> >>]
    /\ (hc.pc = "done" /\ hc.response # NoResponse) =>
          /\ hc.completion =
                Return(IF hc.response.status \in 200..299 THEN "true" ELSE "false")
          /\ ~hc.bodyRead

C7_Witness ==
    /\ hc.pc = "done"
    /\ hc.response.status = 200
    /\ hc.response.body.error = "duplicate credential"
    /\ hc.completion = Return("true")
    /\ inv.pc = "done"
    /\ inv.response = hc.response
    /\ inv.completion.how = "throw"

\* C8: healthCheck always completes by returning a boolean, never by
\* throwing; when the transport throws (no HTTP response) it returns false.
C8_ProbeNeverThrows ==
    hc.pc = "done" =>
        /\ hc.completion.how = "return"
        /\ hc.completion.value \in {"true", "false"}
        /\ (hc.response = NoResponse => hc.completion.value = "false")

C8_Witness ==
    /\ hc.pc = "done"
    /\ hc.response = NoResponse
    /\ hc.completion = Return("false")

\* C9: getBridgeStatus starts and settles no network request; connected is
\* truthy exactly when the marker is present, and in "http" mode connected
\* is falsy whether the backend is up or down.
C9_StatusDoesNoIO ==
    /\ [](Queried =>
            /\ Truthy(lastStatus.connected) <=> MarkerPresent(statusEnv)
            /\ lastStatus.mode = "http" => ~Truthy(lastStatus.connected))
    /\ [][(lastStatus' # lastStatus \/ statusEnv' # statusEnv)
             => UNCHANGED <<inv, hc, server>>]_vars

C9_Witness ==
    /\ statusEnv = env
    /\ lastStatus.mode = "http"
    /\ ~Truthy(lastStatus.connected)
    /\ server = "up"
    /\ hc.completion = Return("true")

\* C10: the mode is never cached: every status query returns the mode the
\* decision policy gives for the environment at the moment of the query,
\* whatever was queried or called before.
C10_ModeIsFresh ==
    Queried => lastStatus.mode = DecisionPolicy(statusEnv)

C10_Witness ==
    /\ statusEnv.TAURI = "object"
    /\ statusEnv.hostname = "example.com"
    /\ lastStatus.mode = "tauri"
    /\ env # statusEnv
    /\ getBridgeStatus(env).mode = "mock"
    /\ inv.pc = "done"
    /\ hc.pc = "done"

\* The URIs the codec accepts, stated on the URI itself.
WellFormedUri(u) ==
    /\ u.scheme = "recognized"
    /\ u.data = "record"
    /\ u.version = "supported"
    /\ u.name # "" /\ u.apiBase # "" /\ u.credential # ""

\* C11: a connect attempt issues the backend save command at most once and
\* never retries: when decoding fails the attempt ends with MalformedUri,
\* UnsupportedRelayVersion or MissingField and no command is issued; when
\* decoding succeeds exactly one command is issued, whether the bridge call
\* then succeeds or fails.
C11_OneCommandPerConnect ==
    /\ conn.issued <= 1
    /\ inv.pc # "idle" => (conn.pc = "dispatched" /\ conn.issued = 1 /\ inv.cmd = "save_api_key")
    /\ conn.pc = "done" =>
          IF WellFormedUri(conn.uri)
          THEN /\ conn.issued = 1
               /\ conn.result.tag \in {"SaveApiKeyResult", "BackendUnreachable",
                                       "PersistenceRejected"}
          ELSE /\ conn.issued = 0
               /\ conn.result.tag \in {"MalformedUri", "UnsupportedRelayVersion",
                                       "MissingField"}

C11_Witness ==
    /\ conn.pc = "done"
    /\ WellFormedUri(conn.uri)
    /\ conn.result.tag = "BackendUnreachable"
    /\ conn.issued = 1
    /\ inv = IdleCall

\* C12: every object getBridgeStatus returns is consistent: connected
\* implies available; mode is "mock" exactly when available is falsy; mode
\* is "tauri" exactly when connected is truthy; mode is "http" exactly when
\* available is truthy and connected is falsy.
C12_StatusIsConsistent ==
    Queried =>
        /\ Truthy(lastStatus.connected) => Truthy(lastStatus.available)
        /\ lastStatus.mode = "mock" <=> ~Truthy(lastStatus.available)
        /\ lastStatus.mode = "tauri" <=> Truthy(lastStatus.connected)
        /\ lastStatus.mode = "http" <=>
              (Truthy(lastStatus.available) /\ ~Truthy(lastStatus.connected))

C12_Witness ==
    /\ Queried
    /\ statusEnv.DEV
    /\ statusEnv.hostname = "example.com"
    /\ lastStatus.mode = "http"
    /\ lastStatus.available = "true"
    /\ lastStatus.connected = "undefined"

====
